---- MODULE Spec2Model ----
(***************************************************************************)
(* Model of src/main.rs: FileSystem (a recursive directory scanner) with   *)
(* scan_directory and the three derived views get_directory_size,          *)
(* get_file_types_summary and find_largest_files.                          *)
(*                                                                         *)
(* The file system and the walkdir iterator are the environment: every     *)
(* call of the iterator's next() yields an item chosen nondeterministically*)
(* among the items WalkDir can yield at that point.  scan_directory is     *)
(* modelled with one step per loop iteration.                              *)
(***************************************************************************)
EXTENDS Integers, Sequences, FiniteSets, TLC

\* ------------------------------------------------------------------ bounds
\* MaxEntries: items the walker yields in one scan (errors included)
\* MaxSize:    largest metadata.len() of an entry
\* MaxLimit:   largest limit passed to find_largest_files
MaxEntries == 3
MaxSize == 2
MaxLimit == 3

\* ------------------------------------------------------------------ paths
\* A path is a sequence of one-character strings.
RootPath == <<"d">>

\* The paths below the root, in the order in which the directory lists them.
ChildPaths ==
    << <<"d", "/", "a", ".", "b", ".", "T">>,
       <<"d", "/", "b", ".", "t">>,
       <<"d", "/", ".", "g">> >>

Min(a, b) == IF a < b THEN a ELSE b

\* char::to_lowercase on the characters of the path alphabet
Lower(c) ==
    CASE c = "T" -> "t"
      [] c = "G" -> "g"
      [] OTHER   -> c

\* str::to_lowercase
ToLowercase(s) == [i \in 1..Len(s) |-> Lower(s[i])]

\* position of the last occurrence of c in s, 0 when there is none
RECURSIVE LastIndexOf(_, _, _)
LastIndexOf(s, c, i) ==
    IF i = 0 THEN 0
    ELSE IF s[i] = c THEN i
    ELSE LastIndexOf(s, c, i - 1)

None == [some |-> FALSE, val |-> <<>>]
Some(v) == [some |-> TRUE, val |-> v]

\* Path::file_name: the last component of the path; None when the path
\* ends in "..", and "." is not a normal component either.  (The paths of
\* the model have no trailing separator, which Path would ignore.)
FileName(p) ==
    LET k    == LastIndexOf(p, "/", Len(p))
        last == SubSeq(p, k + 1, Len(p))
    IN  IF last = <<>> \/ last = <<".">> \/ last = <<".", ".">>
        THEN None
        ELSE Some(last)

\* Path::extension: the part of the file name after its last dot; None when
\* there is no file name, no dot, or the only dot is the first character.
Extension(p) ==
    LET f == FileName(p)
    IN  IF ~f.some THEN None
        ELSE LET k == LastIndexOf(f.val, ".", Len(f.val))
             IN  IF k = 0 \/ k = 1 THEN None
                 ELSE Some(SubSeq(f.val, k + 1, Len(f.val)))

NoExtension == <<"n", "o", "_", "e", "x", "t", "e", "n", "s", "i", "o", "n">>

\* the key without the conversion to lower case
ExtKeyNoLower(p) ==
    LET e == Extension(p)
    IN  IF e.some THEN e.val ELSE NoExtension

\* main.rs 82-86: extension().and_then(to_str).unwrap_or("no_extension")
\*                .to_lowercase()
\* stat.path is a String, so to_str always succeeds.
ExtKey(p) ==
    LET e == Extension(p)
    IN  ToLowercase(IF e.some THEN e.val ELSE NoExtension)

\* ------------------------------------------------------- the environment
\* What Metadata reports for one entry.  ok = FALSE: entry.metadata() fails.
NoMeta == [ok |-> FALSE, is_dir |-> FALSE, is_file |-> FALSE, len |-> 0]

\* (is_dir, is_file) of a directory, a regular file, and anything else
Kinds == { <<TRUE, FALSE>>, <<FALSE, TRUE>>, <<FALSE, FALSE>> }

Metas ==
    {NoMeta} \cup
    { [ok |-> TRUE, is_dir |-> k[1], is_file |-> k[2], len |-> n] :
        k \in Kinds, n \in 0..MaxSize }

\* One item of WalkDir's iterator: Err(error about path) or Ok(DirEntry).
ErrItem(p) == [ok |-> FALSE, path |-> p, meta |-> NoMeta]

Items(paths) ==
    { ErrItem(p) : p \in paths } \cup
    { [ok |-> TRUE, path |-> p, meta |-> m] : p \in paths, m \in Metas }

\* The time stamp Metadata::modified() yields where the platform has one.
Mtime == "mtime"

\* --------------------------------------------------------------- the state
VARIABLES
    stats,          \* FileSystem.stats: the stored records
    pc,             \* "idle", or "loop" inside scan_directory's for loop
    total_size,     \* scan_directory's local total_size
    file_count,     \* scan_directory's local file_count
    dir_count,      \* scan_directory's local dir_count
    result,         \* what the latest scan_directory call returned
    out,            \* sections printed since the latest scan began
    report,         \* the views main printed after the latest scan
    walked,         \* the items the walker has yielded in the latest scan
    succeeded,      \* some scan_directory call has returned Ok
    held,           \* records were held when the latest scan began
    mtime_ok        \* the platform supports Metadata::modified(); it
                    \* returns Err where the platform has no such field

vars == <<stats, pc, total_size, file_count, dir_count, result, out, report,
          walked, succeeded, held, mtime_ok>>

\* ------------------------------------------------------------ the queries
IsFile(stat) == stat.file_type = "file"

\* get_directory_size without the filter on file_type
RECURSIVE GetDirectorySizeNoFilter(_)
GetDirectorySizeNoFilter(st) ==
    IF st = <<>> THEN 0
    ELSE st[1].size + GetDirectorySizeNoFilter(Tail(st))

\* get_directory_size: the sum of size over the records of type "file"
RECURSIVE GetDirectorySize(_)
GetDirectorySize(st) ==
    IF st = <<>> THEN 0
    ELSE (IF IsFile(st[1]) THEN st[1].size ELSE 0) + GetDirectorySize(Tail(st))

EmptyMap == [k \in {} |-> <<0, 0>>]

\* the update with the size of the entry overwritten instead of added to
AddToEntryOverwrite(m, ext, size) ==
    IF ext \in DOMAIN m
    THEN [m EXCEPT ![ext] = <<@[1] + 1, size>>]
    ELSE m @@ (ext :> <<1, size>>)

\* extensions.entry(ext).or_insert((0, 0)); entry.0 += 1; entry.1 += size
AddToEntry(m, ext, size) ==
    IF ext \in DOMAIN m
    THEN [m EXCEPT ![ext] = <<@[1] + 1, @[2] + size>>]
    ELSE m @@ (ext :> <<1, size>>)

\* the pass of get_file_types_summary over the first n records
RECURSIVE SummaryUpTo(_, _)
SummaryUpTo(st, n) ==
    IF n = 0 THEN EmptyMap
    ELSE LET m == SummaryUpTo(st, n - 1)
         IN  IF IsFile(st[n]) THEN AddToEntry(m, ExtKey(st[n].path), st[n].size)
             ELSE m

GetFileTypesSummary(st) == SummaryUpTo(st, Len(st))

\* the indices of the records of type "file", in order: a Vec<&FileStats>
RECURSIVE FileRefs(_, _)
FileRefs(st, n) ==
    IF n = 0 THEN <<>>
    ELSE IF IsFile(st[n]) THEN Append(FileRefs(st, n - 1), n)
    ELSE FileRefs(st, n - 1)

\* insert reference r into the sorted refs, after every reference whose
\* record is at least as large (the sort is stable)
RECURSIVE InsertBySize(_, _, _)
InsertBySize(st, refs, r) ==
    IF refs = <<>> THEN <<r>>
    ELSE IF st[Head(refs)].size >= st[r].size
         THEN <<Head(refs)>> \o InsertBySize(st, Tail(refs), r)
         ELSE <<r>> \o refs

\* files.sort_by(|a, b| b.size.cmp(&a.size)) applied to the first n refs
RECURSIVE SortBySizeDesc(_, _, _)
SortBySizeDesc(st, refs, n) ==
    IF n = 0 THEN <<>>
    ELSE InsertBySize(st, SortBySizeDesc(st, refs, n - 1), refs[n])

\* files.truncate(limit)
Truncate(refs, limit) == SubSeq(refs, 1, Min(limit, Len(refs)))

\* find_largest_files without the truncation
FindLargestFilesNoTruncate(st, limit) ==
    LET files == FileRefs(st, Len(st))
    IN  SortBySizeDesc(st, files, Len(files))

\* find_largest_files: references (indices into st) to the limit largest
\* records of type "file", largest first
FindLargestFiles(st, limit) ==
    LET files == FileRefs(st, Len(st))
    IN  Truncate(SortBySizeDesc(st, files, Len(files)), limit)

\* ------------------------------------------------------- scan_directory
\* The locals and the field scan_directory works on; ret is "running"
\* until a ? operator returns the error.
ScanState(st, ts, fc, dc, r) ==
    [stats |-> st, total_size |-> ts, file_count |-> fc, dir_count |-> dc,
     ret |-> r]

\* leaving the previous records in place
KeepStats(st) == st

\* self.stats.clear()
ClearStats(st) == <<>>

\* main.rs 28-34: the state in which the for loop is entered
EnterLoop(st) == ScanState(ClearStats(st), 0, 0, 0, "running")

\* the loop body with a failed metadata read skipped instead of returned
ProcessEntrySkip(s, e, mok) ==
    IF ~e.meta.ok \/ ~mok THEN s
    ELSE LET kind == IF e.meta.is_dir THEN "directory"
                     ELSE IF e.meta.is_file THEN "file" ELSE "other"
         IN  [s EXCEPT
                !.dir_count  = IF e.meta.is_dir THEN @ + 1 ELSE @,
                !.file_count = IF ~e.meta.is_dir /\ e.meta.is_file THEN @ + 1 ELSE @,
                !.total_size = IF ~e.meta.is_dir /\ e.meta.is_file
                               THEN @ + e.meta.len ELSE @,
                !.stats      = Append(@, [path |-> e.path, size |-> e.meta.len,
                                          file_type |-> kind,
                                          last_modified |-> Mtime])]

\* main.rs 40-57: the loop body for one enumerated entry e; mok tells
\* whether metadata.modified() succeeds
ProcessEntry(s, e, mok) ==
    IF ~e.meta.ok
    THEN [s EXCEPT !.ret = "Err"]                       \* entry.metadata()?
    ELSE LET isDir  == e.meta.is_dir
             isFile == ~isDir /\ e.meta.is_file
             kind   == IF isDir THEN "directory"
                       ELSE IF isFile THEN "file" ELSE "other"
             counted == [s EXCEPT
                           !.dir_count  = IF isDir THEN @ + 1 ELSE @,
                           !.file_count = IF isFile THEN @ + 1 ELSE @,
                           !.total_size = IF isFile THEN @ + e.meta.len ELSE @]
         IN  IF ~mok
             THEN [counted EXCEPT !.ret = "Err"]        \* metadata.modified()?
             ELSE [counted EXCEPT
                     !.stats = Append(@, [path |-> e.path,
                                          size |-> e.meta.len,
                                          file_type |-> kind,
                                          last_modified |-> Mtime])]

\* the iteration with an enumeration error returned instead of skipped
LoopBodyPropagate(s, item, mok) ==
    IF ~item.ok THEN [s EXCEPT !.ret = "Err"]
    ELSE ProcessEntry(s, item, mok)

\* main.rs 36-58: one iteration; filter_map(|e| e.ok()) drops an Err item
LoopBody(s, item, mok) ==
    IF ~item.ok THEN s
    ELSE ProcessEntry(s, item, mok)

\* the for loop over a whole sequence of items, left at the first error
RECURSIVE RunLoop(_, _, _)
RunLoop(s, items, mok) ==
    IF items = <<>> \/ s.ret = "Err" THEN s
    ELSE RunLoop(LoopBody(s, Head(items), mok), Tail(items), mok)

\* the position in ChildPaths of the latest path the walker yielded an item
\* for; 0 when that is the root
LastListed ==
    LET p == walked[Len(walked)].path
    IN  IF p = RootPath THEN 0
        ELSE CHOOSE i \in 1..Len(ChildPaths) : ChildPaths[i] = p

\* the items WalkDir can yield next: first one for the root, then, if the
\* root could be read, one for an entry further down the directory listing
NextItems ==
    IF walked = <<>> THEN Items({RootPath})
    ELSE IF walked[1].ok
         THEN Items({ ChildPaths[i] : i \in (LastListed + 1)..Len(ChildPaths) })
         ELSE {}

NoReport == [types |-> EmptyMap, largest |-> <<>>]

\* main.rs 146: find_largest_files(10)
TopK == 10

Init ==
    /\ stats = <<>>
    /\ pc = "idle"
    /\ total_size = 0
    /\ file_count = 0
    /\ dir_count = 0
    /\ result = "none"
    /\ out = <<>>
    /\ report = NoReport
    /\ walked = <<>>
    /\ succeeded = FALSE
    /\ held = FALSE
    /\ mtime_ok \in BOOLEAN

\* main.rs 27-34: scan_directory up to the for loop
ScanBegin ==
    /\ pc = "idle"
    /\ LET s == EnterLoop(stats)
       IN  /\ stats' = s.stats
           /\ total_size' = s.total_size
           /\ file_count' = s.file_count
           /\ dir_count' = s.dir_count
    /\ pc' = "loop"
    /\ result' = "none"
    /\ out' = <<"start">>
    /\ report' = NoReport
    /\ walked' = <<>>
    /\ held' = (stats # <<>>)
    /\ UNCHANGED <<succeeded, mtime_ok>>

\* main.rs 36-58: the walker yields item and the loop handles it
ScanNext(item) ==
    /\ pc = "loop"
    /\ Len(walked) < MaxEntries
    /\ walked' = Append(walked, item)
    /\ LET s == LoopBody(ScanState(stats, total_size, file_count, dir_count,
                                   "running"), item, mtime_ok)
       IN  /\ stats' = s.stats
           /\ total_size' = s.total_size
           /\ file_count' = s.file_count
           /\ dir_count' = s.dir_count
           /\ pc' = IF s.ret = "Err" THEN "idle" ELSE "loop"
           /\ result' = IF s.ret = "Err" THEN "Err" ELSE result
    /\ UNCHANGED <<out, report, succeeded, held, mtime_ok>>

\* main.rs 60-66: the walker is exhausted; print the summary, return Ok
ScanEnd ==
    /\ pc = "loop"
    /\ walked # <<>>
    /\ pc' = "idle"
    /\ result' = "Ok"
    /\ out' = Append(out, "summary")
    /\ succeeded' = TRUE
    /\ UNCHANGED <<stats, total_size, file_count, dir_count, report, walked,
                   held, mtime_ok>>

\* main.rs 130-152: after a scan that returned Ok, main prints the report
Report ==
    /\ pc = "idle"
    /\ result = "Ok"
    /\ out = <<"start", "summary">>
    /\ out' = Append(out, "report")
    /\ report' = [types |-> GetFileTypesSummary(stats),
                  largest |-> FindLargestFiles(stats, TopK)]
    /\ UNCHANGED <<stats, pc, total_size, file_count, dir_count, result,
                   walked, succeeded, held, mtime_ok>>

Next ==
    \/ ScanBegin
    \/ \E item \in NextItems : ScanNext(item)
    \/ ScanEnd
    \/ Report

Spec == Init /\ [][Next]_vars

\* ----------------------------------------------------------- properties
Printed(tag) == \E i \in 1..Len(out) : out[i] = tag

OkItem(item) == item.ok

\* the entries the walker enumerated: its items without the errors
OkItems(items) == SelectSeq(items, OkItem)

\* metadata or modification time of an enumerated entry cannot be read
MetadataFails(item) == item.ok /\ (~item.meta.ok \/ ~mtime_ok)

FileCount(st) == Cardinality({ i \in 1..Len(st) : IsFile(st[i]) })

Limits == 0..MaxLimit

\* the records a sequence of references denotes
Deref(st, refs) == [i \in 1..Len(refs) |-> st[refs[i]]]

\* C1: scanning a root that does not exist returns an error, stores no
\* record and prints neither the scan summary nor the report.
C1_UnreadableRootFails ==
    (pc = "idle" /\ walked = <<ErrItem(RootPath)>>)
        => /\ result = "Err"
           /\ stats = <<>>
           /\ ~Printed("summary")
           /\ ~Printed("report")

\* C2: while no scan_directory call has returned Ok, the three queries
\* give 0, the empty mapping and the empty sequence.
C2_QueriesEmptyBeforeSuccess ==
    (pc = "idle" /\ ~succeeded)
        => /\ GetDirectorySize(stats) = 0
           /\ GetFileTypesSummary(stats) = EmptyMap
           /\ \A limit \in Limits : FindLargestFiles(stats, limit) = <<>>

\* C3: an enumerated entry whose metadata (or modification time) cannot be
\* read ends the scan with an error at that entry: it is the last item the
\* walker was asked for, it has no record, the records are those of the
\* entries before it, and the summary is not printed.
C3_MetadataErrorStopsScan ==
    \A i \in 1..Len(walked) :
        MetadataFails(walked[i])
            => /\ i = Len(walked)
               /\ pc = "idle"
               /\ result = "Err"
               /\ ~Printed("summary")
               /\ Len(stats) = Len(OkItems(SubSeq(walked, 1, i - 1)))
               /\ \A j \in 1..Len(stats) : stats[j].path # walked[i].path

C3_Witness ==
    /\ Len(walked) = 3
    /\ MetadataFails(walked[3])
    /\ Len(stats) = 2
    /\ result = "Err"

\* C4: enumeration errors are skipped: at every point of a scan, and when
\* it has returned, the records and the outcome are those of the same
\* traversal without the erroring items.
C4_EnumerationErrorsSkipped ==
    LET r == RunLoop(EnterLoop(<<>>), OkItems(walked), mtime_ok)
    IN  /\ pc = "loop" => (stats = r.stats /\ r.ret = "running")
        /\ (pc = "idle" /\ walked # <<>>)
              => /\ stats = r.stats
                 /\ result = (IF r.ret = "Err" THEN "Err" ELSE "Ok")

C4_Witness ==
    /\ pc = "idle"
    /\ result = "Ok"
    /\ Len(walked) = 3
    /\ ~walked[2].ok
    /\ Len(stats) = 2

\* C5: when a scan returns Ok the stored records are one per entry the
\* walker enumerated in that scan, in traversal order, and nothing else.
C5_RescanReplaces ==
    (pc = "idle" /\ result = "Ok")
        => LET ok == OkItems(walked)
           IN  /\ Len(stats) = Len(ok)
               /\ \A i \in 1..Len(ok) :
                     /\ stats[i].path = ok[i].path
                     /\ stats[i].size = ok[i].meta.len

C5_Witness ==
    /\ pc = "idle"
    /\ result = "Ok"
    /\ held
    /\ Len(stats) = 1

\* C6: find_largest_files(limit) is sorted non-increasing by size, has
\* length min(limit, number of file records), refers only to file records
\* of the current result, and to none twice.
C6_LargestFiles ==
    \A limit \in Limits :
        LET r == FindLargestFiles(stats, limit)
        IN  /\ Len(r) = Min(limit, FileCount(stats))
            /\ \A i \in 1..Len(r) : r[i] \in 1..Len(stats) /\ IsFile(stats[r[i]])
            /\ \A i, j \in 1..Len(r) :
                  /\ i < j => stats[r[i]].size >= stats[r[j]].size
                  /\ i # j => r[i] # r[j]

C6_Witness ==
    /\ Len(stats) = 3
    /\ \A i \in 1..3 : IsFile(stats[i])
    /\ stats[1].size < stats[3].size
    /\ stats[3].size < stats[2].size
    /\ Deref(stats, FindLargestFiles(stats, 2)) = <<stats[2], stats[3]>>

RECURSIVE SumSizes(_, _)
SumSizes(m, keys) ==
    IF keys = {} THEN 0
    ELSE LET k == CHOOSE x \in keys : TRUE
         IN  m[k][2] + SumSizes(m, keys \ {k})

RECURSIVE SumCounts(_, _)
SumCounts(m, keys) ==
    IF keys = {} THEN 0
    ELSE LET k == CHOOSE x \in keys : TRUE
         IN  m[k][1] + SumCounts(m, keys \ {k})

\* C7: get_directory_size() is the sum of the sizes of the entries of
\* get_file_types_summary().
C7_SizeCrossCheck ==
    LET m == GetFileTypesSummary(stats)
    IN  GetDirectorySize(stats) = SumSizes(m, DOMAIN m)

C7_Witness ==
    LET m == GetFileTypesSummary(stats)
    IN  /\ Cardinality(DOMAIN m) = 2
        /\ \E k \in DOMAIN m : m[k] = <<2, 3>>
        /\ GetDirectorySize(stats) = 4

\* the key the file name of path p belongs under: the lowercased part after
\* its last dot, when it has a dot that is not its first character
KeyOfPath(p) ==
    LET slashes == { i \in 1..Len(p) : p[i] = "/" }
        start   == IF slashes = {} THEN 1
                   ELSE 1 + CHOOSE i \in slashes : \A j \in slashes : j <= i
        dots    == { i \in (start + 1)..Len(p) : p[i] = "." }
    IN  IF dots = {} THEN NoExtension
        ELSE LET d == CHOOSE i \in dots : \A j \in dots : j <= i
             IN  [i \in 1..(Len(p) - d) |-> Lower(p[d + i])]

\* C8: every file record is counted once, in the entry keyed by its
\* lowercased extension (no_extension when it has none); the counts add up
\* to the number of file records.
C8_CountedOnce ==
    LET m == GetFileTypesSummary(stats)
    IN  /\ SumCounts(m, DOMAIN m) = FileCount(stats)
        /\ DOMAIN m = { KeyOfPath(stats[i].path) :
                          i \in { j \in 1..Len(stats) : IsFile(stats[j]) } }
        /\ \A k \in DOMAIN m :
              m[k][1] = Cardinality({ i \in 1..Len(stats) :
                            IsFile(stats[i]) /\ KeyOfPath(stats[i].path) = k })

C8_Witness ==
    LET m == GetFileTypesSummary(stats)
    IN  /\ FileCount(stats) = 3
        /\ DOMAIN m = { NoExtension, <<"t">> }
        /\ m[<<"t">>][1] = 2

\* C9: every stored record of type directory has size 0.
C9_DirectorySizeZero ==
    \A i \in 1..Len(stats) :
        stats[i].file_type = "directory" => stats[i].size = 0

IsFileItem(item) == item.ok /\ item.meta.ok /\ item.meta.is_file

\* C10: directory and other records contribute to no derived value: the
\* running file count and size total and the three views are those of the
\* same traversal with only the regular files in it.
C10_OnlyFilesContribute ==
    (pc = "loop" \/ result = "Ok")
        => LET r == RunLoop(EnterLoop(<<>>), SelectSeq(walked, IsFileItem),
                            mtime_ok)
           IN  /\ file_count = r.file_count
               /\ total_size = r.total_size
               /\ GetDirectorySize(stats) = GetDirectorySize(r.stats)
               /\ GetFileTypesSummary(stats) = GetFileTypesSummary(r.stats)
               /\ \A limit \in Limits :
                     Deref(stats, FindLargestFiles(stats, limit))
                         = Deref(r.stats, FindLargestFiles(r.stats, limit))

C10_Witness ==
    /\ pc = "idle"
    /\ result = "Ok"
    /\ Len(stats) = 3
    /\ stats[1].file_type = "directory" /\ stats[1].size > 0
    /\ stats[2].file_type = "file" /\ stats[2].size > 0
    /\ stats[3].file_type = "other" /\ stats[3].size > 0

====
